---- MODULE Spec2Model ----
(***************************************************************************)
(* Model of csv_processor.py: parse_condition, apply_filter,               *)
(* apply_aggregation and the main() driver.                                *)
(*                                                                         *)
(* A Python str is a sequence of one-character strings, so that splitting, *)
(* substring search, float() parsing and lexicographic comparison are      *)
(* computed character by character as the interpreter does.                *)
(* float() is modelled on the decimal grammar without exponent, "_",       *)
(* "inf" or "nan": no string drawn below contains the letters or the       *)
(* characters those forms need.                                            *)
(***************************************************************************)
EXTENDS Integers, Sequences, FiniteSets, TLC

\* ------------------------------------------------------------------ bounds
MaxCondLen == 4
MaxRows == 2

\* ------------------------------------------------------------- str helpers
\* Code-point order of the characters used (ASCII order), for str < str.
CHARS ==
  << " ", "!", "+", "-", ".", "0", "1", "2", "3", "4", "5", "6", "7", "8", "9",
     "<", "=", ">", "_", "a", "b", "c", "d", "e", "g", "i", "l", "m", "n",
     "o", "p", "r", "s", "t", "u", "v", "x" >>

Ord(c) == CHOOSE i \in 1..Len(CHARS) : CHARS[i] = c

RECURSIVE StrLess(_, _)
StrLess(s, t) ==
  IF t = <<>> THEN FALSE
  ELSE IF s = <<>> THEN TRUE
  ELSE IF Head(s) # Head(t) THEN Ord(Head(s)) < Ord(Head(t))
  ELSE StrLess(Tail(s), Tail(t))

\* op in condition / condition.find(op): 0 when absent, else first index.
Find(s, op) ==
  LET hits == { i \in 1..(Len(s) - Len(op) + 1) : SubSeq(s, i, i + Len(op) - 1) = op }
  IN IF hits = {} THEN 0 ELSE CHOOSE i \in hits : \A j \in hits : i <= j

Contains(s, op) == Find(s, op) # 0

\* s.split(op, 1): at most one cut, at the first occurrence.
SplitOnce(s, op) ==
  LET i == Find(s, op)
  IN IF i = 0 THEN << s >>
     ELSE << SubSeq(s, 1, i - 1), SubSeq(s, i + Len(op), Len(s)) >>

RECURSIVE LStrip(_)
LStrip(s) == IF s # <<>> /\ Head(s) = " " THEN LStrip(Tail(s)) ELSE s

RECURSIVE RStrip(_)
RStrip(s) ==
  IF s # <<>> /\ s[Len(s)] = " " THEN RStrip(SubSeq(s, 1, Len(s) - 1)) ELSE s

Strip(s) == RStrip(LStrip(s))

\* ----------------------------------------------------------------- float()
Digits == { "0", "1", "2", "3", "4", "5", "6", "7", "8", "9" }

DigitVal(c) == Ord(c) - Ord("0")

RECURSIVE Pow10(_)
Pow10(n) == IF n = 0 THEN 1 ELSE 10 * Pow10(n - 1)

RECURSIVE DigitsToInt(_)
DigitsToInt(s) ==
  IF s = <<>> THEN 0
  ELSE 10 * DigitsToInt(SubSeq(s, 1, Len(s) - 1)) + DigitVal(s[Len(s)])

\* float(val) succeeds: optional blanks, optional sign, digits with at most
\* one ".", at least one digit.
IsFloat(val) ==
  LET t == Strip(val)
      b == IF t # <<>> /\ Head(t) \in { "-", "+" } THEN Tail(t) ELSE t
  IN /\ \A i \in 1..Len(b) : b[i] \in Digits \cup { "." }
     /\ Cardinality({ i \in 1..Len(b) : b[i] = "." }) <= 1
     /\ \E i \in 1..Len(b) : b[i] \in Digits

\* The number float(val) denotes, as m / 10^e (exact for decimal text).
FloatOf(val) ==
  LET t == Strip(val)
      neg == t # <<>> /\ Head(t) = "-"
      b == IF t # <<>> /\ Head(t) \in { "-", "+" } THEN Tail(t) ELSE t
      dot == Find(b, << "." >>)
      ip == IF dot = 0 THEN b ELSE SubSeq(b, 1, dot - 1)
      fp == IF dot = 0 THEN <<>> ELSE SubSeq(b, dot + 1, Len(b))
      m == DigitsToInt(ip \o fp)
  IN [ m |-> IF neg THEN 0 - m ELSE m, e |-> Len(fp) ]

NumEq(x, y) == x.m * Pow10(y.e) = y.m * Pow10(x.e)
NumLess(x, y) == x.m * Pow10(y.e) < y.m * Pow10(x.e)

\* ----------------------------------------------------------- parse_condition
OP_GE == << ">", "=" >>
OP_LE == << "<", "=" >>
OP_NE == << "!", "=" >>
OP_EQ == << "=" >>
OP_GT == << ">" >>
OP_LT == << "<" >>

\* The priority list with the one-character operators tested first.
ParseOperatorsSingleFirst == << OP_EQ, OP_GT, OP_LT, OP_GE, OP_LE, OP_NE >>

\* The priority list with "=" moved to the front.
ParseOperatorsEqFirst == << OP_EQ, OP_GE, OP_LE, OP_NE, OP_GT, OP_LT >>

\* The priority list without "<".
ParseOperatorsNoLt == << OP_GE, OP_LE, OP_NE, OP_EQ, OP_GT >>

ParseOperators == << OP_GE, OP_LE, OP_NE, OP_EQ, OP_GT, OP_LT >>

NoStr == << >>

RECURSIVE ParseFrom(_, _, _)
ParseFrom(condition, ops, k) ==
  IF k > Len(ops)
  THEN [ exc |-> "ValueError", msg |-> "Invalid condition format",
         column |-> NoStr, operator |-> NoStr, value |-> NoStr ]
  ELSE LET parts == SplitOnce(condition, ops[k])
       IN IF Contains(condition, ops[k]) /\ Len(parts) = 2
          THEN [ exc |-> "none", msg |-> "",
                 column |-> parts[1], operator |-> ops[k], value |-> parts[2] ]
          ELSE ParseFrom(condition, ops, k + 1)

parse_condition(condition) == ParseFrom(condition, ParseOperators, 1)

\* ------------------------------------------------------------- apply_filter
\* try_convert: float(val) when it parses, else the text unchanged.
try_convert(val) ==
  IF IsFloat(val)
  THEN LET f == FloatOf(val) IN [ isnum |-> TRUE, m |-> f.m, e |-> f.e, s |-> NoStr ]
  ELSE [ isnum |-> FALSE, m |-> 0, e |-> 0, s |-> val ]

\* The keys of the dispatch table `operators`.
FilterOperators == { OP_EQ, OP_GT, OP_LT }

\* x == y on float/str operands: a float never equals a str.
PyEq(x, y) ==
  IF x.isnum /\ y.isnum THEN NumEq(x, y)
  ELSE IF ~x.isnum /\ ~y.isnum THEN x.s = y.s
  ELSE FALSE

\* x < y on float/str operands: "TypeError" for a float against a str.
PyLess(x, y) ==
  IF x.isnum /\ y.isnum THEN (IF NumLess(x, y) THEN "true" ELSE "false")
  ELSE IF ~x.isnum /\ ~y.isnum THEN (IF StrLess(x.s, y.s) THEN "true" ELSE "false")
  ELSE "TypeError"

\* operators[operator](x, y): "true", "false" or the exception raised.
op_func(operator, x, y) ==
  IF operator = OP_EQ THEN (IF PyEq(x, y) THEN "true" ELSE "false")
  ELSE IF operator = OP_GT THEN PyLess(y, x)
  ELSE PyLess(x, y)

\* What a call of apply_filter leaves behind: the exception raised ("none"
\* when it returns), the list returned, and the caller's list after the call.
FilterResult(exc, msg, filtered_rows, input) ==
  [ exc |-> exc, msg |-> msg, rows |-> filtered_rows, input |-> input ]

\* A loop that puts each kept row in front of the earlier ones.
RECURSIVE FilterLoopPrepend(_, _, _, _, _, _)
FilterLoopPrepend(rows, column, operator, value, i, filtered_rows) ==
  IF i > Len(rows) THEN FilterResult("none", "", filtered_rows, rows)
  ELSE IF column \notin DOMAIN rows[i] THEN FilterResult("KeyError", "column", <<>>, rows)
  ELSE LET r == op_func(operator, try_convert(rows[i][column]), try_convert(value))
       IN IF r = "TypeError" THEN FilterResult("TypeError", "not supported", <<>>, rows)
          ELSE FilterLoopPrepend(rows, column, operator, value, i + 1,
                 IF r = "true" THEN << rows[i] >> \o filtered_rows ELSE filtered_rows)

\* for row in rows: convert, compare, append.  row[column] raises KeyError
\* when the column is missing; a float/str ordering raises TypeError.
RECURSIVE FilterLoop(_, _, _, _, _, _)
FilterLoop(rows, column, operator, value, i, filtered_rows) ==
  IF i > Len(rows) THEN FilterResult("none", "", filtered_rows, rows)
  ELSE IF column \notin DOMAIN rows[i] THEN FilterResult("KeyError", "column", <<>>, rows)
  ELSE LET r == op_func(operator, try_convert(rows[i][column]), try_convert(value))
       IN IF r = "TypeError" THEN FilterResult("TypeError", "not supported", <<>>, rows)
          ELSE FilterLoop(rows, column, operator, value, i + 1,
                 IF r = "true" THEN Append(filtered_rows, rows[i]) ELSE filtered_rows)

\* A filter that loses the first matching row.
apply_filter_drop_first(rows, column, operator, value) ==
  IF operator \notin FilterOperators
  THEN FilterResult("ValueError", "Unsupported operator", <<>>, rows)
  ELSE LET r == FilterLoop(rows, column, operator, value, 1, <<>>)
       IN IF r.exc = "none" /\ r.rows # <<>>
          THEN FilterResult("none", "", Tail(r.rows), rows)
          ELSE r

apply_filter(rows, column, operator, value) ==
  IF operator \notin FilterOperators
  THEN FilterResult("ValueError", "Unsupported operator", <<>>, rows)
  ELSE FilterLoop(rows, column, operator, value, 1, <<>>)

\* -------------------------------------------------------- apply_aggregation
OPN_AVG == << "a", "v", "g" >>
OPN_MIN == << "m", "i", "n" >>
OPN_MAX == << "m", "a", "x" >>

\* The keys of the dispatch table `operations`.
AggOperations == { OPN_AVG, OPN_MIN, OPN_MAX }

AggResult(exc, msg, operation, column, value) ==
  [ exc |-> exc, msg |-> msg, operation |-> operation, column |-> column,
    value |-> value ]

\* A conversion that leaves out the rows whose cell is not a number.
RECURSIVE AggValuesSkipText(_, _, _, _)
AggValuesSkipText(rows, column, i, values) ==
  IF i > Len(rows) THEN [ exc |-> "none", values |-> values ]
  ELSE IF column \notin DOMAIN rows[i] THEN [ exc |-> "KeyError", values |-> <<>> ]
  ELSE IF ~IsFloat(rows[i][column])
  THEN AggValuesSkipText(rows, column, i + 1, values)
  ELSE AggValuesSkipText(rows, column, i + 1, Append(values, FloatOf(rows[i][column])))

\* values = [float(row[column]) for row in rows]
RECURSIVE AggValues(_, _, _, _)
AggValues(rows, column, i, values) ==
  IF i > Len(rows) THEN [ exc |-> "none", values |-> values ]
  ELSE IF column \notin DOMAIN rows[i] THEN [ exc |-> "KeyError", values |-> <<>> ]
  ELSE IF ~IsFloat(rows[i][column]) THEN [ exc |-> "ValueError", values |-> <<>> ]
  ELSE AggValues(rows, column, i + 1, Append(values, FloatOf(rows[i][column])))

\* round-half-even of p / q (q > 0) to an integer.
RoundDiv(p, q) ==
  LET fl == p \div q
      r == p - fl * q
  IN IF 2 * r < q THEN fl
     ELSE IF 2 * r > q THEN fl + 1
     ELSE IF fl % 2 = 0 THEN fl ELSE fl + 1

MaxE(values) ==
  LET es == { values[i].e : i \in 1..Len(values) }
  IN CHOOSE e \in es : \A f \in es : e >= f

RECURSIVE SumScaled(_, _)
SumScaled(values, E) ==
  IF values = <<>> THEN 0
  ELSE Head(values).m * Pow10(E - Head(values).e) + SumScaled(Tail(values), E)

\* round(sum(x) / len(x), 2), as a number of hundredths.  The binary sum
\* differs from the exact one by far less than the distance to a rounding
\* tie for the values drawn below.
AvgHundredths(values) ==
  LET E == MaxE(values)
  IN RoundDiv(100 * SumScaled(values, E), Len(values) * Pow10(E))

MinOf(values) ==
  values[CHOOSE i \in 1..Len(values) :
           \A j \in 1..Len(values) : ~NumLess(values[j], values[i])]

MaxOf(values) ==
  values[CHOOSE i \in 1..Len(values) :
           \A j \in 1..Len(values) : ~NumLess(values[i], values[j])]

\* round(x, 2) of one value, as a number of hundredths.
Hundredths(x) == RoundDiv(100 * x.m, Pow10(x.e))

apply_aggregation(rows, column, operation) ==
  IF operation \notin AggOperations
  THEN AggResult("ValueError", "Unsupported operation", operation, column, 0)
  ELSE LET v == AggValues(rows, column, 1, <<>>)
       IN IF v.exc = "KeyError"
          THEN AggResult("KeyError", "column", operation, column, 0)
          ELSE IF v.exc = "ValueError"
          THEN AggResult("ValueError", "Cannot aggregate non-numeric column",
                         operation, column, 0)
          ELSE IF v.values = <<>>
          THEN (IF operation = OPN_AVG
                THEN AggResult("ZeroDivisionError", "division by zero",
                               operation, column, 0)
                ELSE AggResult("ValueError", "arg is an empty sequence",
                               operation, column, 0))
          ELSE AggResult("none", "", operation, column,
                 IF operation = OPN_AVG THEN AvgHundredths(v.values)
                 ELSE IF operation = OPN_MIN THEN Hundredths(MinOf(v.values))
                 ELSE Hundredths(MaxOf(v.values)))

\* ------------------------------------------------------------------ inputs
COL_P == << "p" >>
COL_N == << "n" >>
COL_X == << "x" >>

\* The header of the loaded file; every row has exactly these keys.
Header == { COL_P, COL_N }

CellsOf(c) ==
  IF c = COL_P
  THEN { << "1" >>, << "1", ".", "0" >>, << "1", "0" >>, << "a" >> }
  ELSE { << "2" >>, << "a" >> }

Rows == { r \in [ Header -> UNION { CellsOf(c) : c \in Header } ] :
            \A c \in Header : r[c] \in CellsOf(c) }

RECURSIVE TablesOfLen(_)
TablesOfLen(n) ==
  IF n = 0 THEN { << >> }
  ELSE { Append(t, r) : t \in TablesOfLen(n - 1), r \in Rows }

Tables == UNION { TablesOfLen(n) : n \in 0..MaxRows }

Columns == { COL_P, COL_N, COL_X }
Literals == { << "1" >>, << "2" >>, << "a" >>, << "1", "0" >> }
RecognizedOperators == { OP_EQ, OP_NE, OP_GT, OP_LT, OP_GE, OP_LE }
OperatorArgs == RecognizedOperators \cup { << "~" >> }
OPN_SUM == << "s", "u", "m" >>
OperationArgs == AggOperations \cup { OPN_SUM }

CondAlphabet == { "p", "1", " ", "=", ">", "<", "!" }

RECURSIVE StringsOfLen(_, _)
StringsOfLen(A, n) ==
  IF n = 0 THEN { << >> }
  ELSE { Append(t, c) : t \in StringsOfLen(A, n - 1), c \in A }

\* The conditions quoted in the documentation and the tests.
COND_PRICE == << "p", "r", "i", "c", "e", ">", "3", "0", "0" >>
COND_RATING == << "r", "a", "t", "i", "n", "g", ">", "=", "4", ".", "5" >>
COND_INVALID ==
  << "i", "n", "v", "a", "l", "i", "d", "_", "c", "o", "n", "d", "i", "t", "i", "o", "n" >>
COND_EARLY_EQ == << "a", "=", "b", ">", "=", "c" >>

Conditions ==
  UNION { StringsOfLen(CondAlphabet, n) : n \in 0..MaxCondLen }
    \cup { COND_PRICE, COND_RATING, COND_INVALID, COND_EARLY_EQ }

\* An optional command-line argument: << >> is None, << s >> is the text s.
None == << >>
Some(s) == << s >>
Truthy(arg) == arg # None /\ arg[1] # << >>

WhereArgs ==
  { None, Some(<< >>), Some(<< "p", "1" >>) }
    \cup { Some(COL_P \o o \o v) : o \in RecognizedOperators,
                                    v \in { << "1" >>, << "a" >> } }
    \cup { Some(COL_N \o OP_EQ \o << "a" >>), Some(COL_X \o OP_EQ \o << "1" >>),
           Some(COL_X \o OP_GE \o << "1" >>) }

AggregateArgs ==
  { None, Some(<< >>), Some(OPN_AVG) }
    \cup { Some(COL_P \o OP_EQ \o o) : o \in OperationArgs }
    \cup { Some(COL_N \o OP_EQ \o OPN_MIN), Some(COL_X \o OP_EQ \o OPN_MAX) }

\* ------------------------------------------------------------------- state
VARIABLES
  fileExists,  \* the path names a readable file
  table,       \* the records of the file, as read_csv returns them
  where,       \* args.where
  aggregate,   \* args.aggregate
  pc,          \* position in main
  rows,        \* main's local `rows`
  out,         \* what main has printed, in order
  exc,         \* the exception that left main, "none" when there is none
  t_fn,        \* the function last called directly
  t_cond,      \* arguments of that call
  t_rows,
  t_column,
  t_op,
  t_value,
  t_parse,     \* result of parse_condition
  t_filter,    \* result of apply_filter
  t_filter2,   \* result of apply_filter on the rows of t_filter
  t_agg        \* result of apply_aggregation

mainVars == << fileExists, table, where, aggregate, pc, rows, out, exc >>
callVars ==
  << t_fn, t_cond, t_rows, t_column, t_op, t_value, t_parse, t_filter,
     t_filter2, t_agg >>
vars == << mainVars, callVars >>

NoParse == ParseFrom(<< >>, << >>, 1)
NoFilter == FilterResult("unset", "", << >>, << >>)
NoAgg == AggResult("unset", "", NoStr, NoStr, 0)

Printed(kind, msg, rs, agg) == [ kind |-> kind, msg |-> msg, rows |-> rs, agg |-> agg ]

Init ==
  /\ fileExists \in BOOLEAN
  /\ table \in (IF fileExists THEN Tables ELSE { << >> })
  /\ where \in WhereArgs
  /\ aggregate \in AggregateArgs
  /\ pc = "start"
  /\ rows = << >>
  /\ out = << >>
  /\ exc = "none"
  /\ t_fn = "none"
  /\ t_cond = NoStr
  /\ t_rows = << >>
  /\ t_column = NoStr
  /\ t_op = NoStr
  /\ t_value = NoStr
  /\ t_parse = NoParse
  /\ t_filter = NoFilter
  /\ t_filter2 = NoFilter
  /\ t_agg = NoAgg

\* -------------------------------------------------------------------- main
\* rows = read_csv(args.file), or the message for a missing file.
ReadCsv ==
  /\ pc = "start"
  /\ IF fileExists
     THEN /\ rows' = table
          /\ pc' = "where"
          /\ out' = out
     ELSE /\ out' = Append(out, Printed("file_error", "not found", << >>, NoAgg))
          /\ pc' = "done"
          /\ rows' = rows
  /\ UNCHANGED << fileExists, table, where, aggregate, exc, callVars >>

\* The list main hands to apply_aggregation, in the variant that keeps
\* the loaded rows.
AggInputLoaded == table

\* The list main hands to apply_aggregation.
AggInput == rows

\* if args.where: parse, filter, except ValueError -> message and return.
FilterStage ==
  /\ pc = "where"
  /\ IF ~Truthy(where)
     THEN /\ pc' = "aggregate"
          /\ UNCHANGED << rows, out, exc >>
     ELSE LET p == parse_condition(where[1])
              f == apply_filter(rows, p.column, p.operator, p.value)
          IN IF p.exc = "ValueError"
             THEN /\ out' = Append(out, Printed("filter_error", p.msg, << >>, NoAgg))
                  /\ pc' = "done"
                  /\ UNCHANGED << rows, exc >>
             ELSE IF f.exc = "ValueError"
             THEN /\ out' = Append(out, Printed("filter_error", f.msg, << >>, NoAgg))
                  /\ pc' = "done"
                  /\ UNCHANGED << rows, exc >>
             ELSE IF f.exc # "none"
             THEN /\ exc' = f.exc
                  /\ pc' = "crashed"
                  /\ UNCHANGED << rows, out >>
             ELSE /\ rows' = f.rows
                  /\ pc' = "aggregate"
                  /\ UNCHANGED << out, exc >>
  /\ UNCHANGED << fileExists, table, where, aggregate, callVars >>

\* if args.aggregate: split, aggregate, print; else print the rows.
OutputStage ==
  /\ pc = "aggregate"
  /\ IF Truthy(aggregate)
     THEN LET parts == SplitOnce(aggregate[1], OP_EQ)
              r == apply_aggregation(AggInput, parts[1], parts[2])
          IN IF Len(parts) # 2
             THEN /\ out' = Append(out, Printed("aggregation_error",
                                                "not enough values to unpack",
                                                << >>, NoAgg))
                  /\ pc' = "done"
                  /\ exc' = exc
             ELSE IF r.exc = "none"
             THEN /\ out' = Append(out, Printed("aggregate", "", << >>, r))
                  /\ pc' = "done"
                  /\ exc' = exc
             ELSE IF r.exc = "ValueError"
             THEN /\ out' = Append(out, Printed("aggregation_error", r.msg, << >>, NoAgg))
                  /\ pc' = "done"
                  /\ exc' = exc
             ELSE /\ exc' = r.exc
                  /\ pc' = "crashed"
                  /\ out' = out
     ELSE /\ out' = Append(out, IF rows # << >>
                                THEN Printed("table", "", rows, NoAgg)
                                ELSE Printed("no_data", "No data to display", << >>, NoAgg))
          /\ pc' = "done"
          /\ exc' = exc
  /\ UNCHANGED << fileExists, table, where, aggregate, rows, callVars >>

Next == ReadCsv \/ FilterStage \/ OutputStage

Spec == Init /\ [][Next]_vars

\* ------------------------------------------------- the functions, called alone
\* Each behaviour is one direct call on fresh arguments, as in the tests.
CallParseCondition ==
  /\ t_fn = "none"
  /\ \E c \in Conditions :
       /\ t_cond' = c
       /\ t_parse' = parse_condition(c)
  /\ t_fn' = "parse_condition"
  /\ t_rows' = << >>
  /\ t_column' = NoStr
  /\ t_op' = NoStr
  /\ t_value' = NoStr
  /\ t_filter' = NoFilter
  /\ t_filter2' = NoFilter
  /\ t_agg' = NoAgg
  /\ UNCHANGED mainVars

CallApplyFilter ==
  /\ t_fn = "none"
  /\ \E rs \in Tables, c \in Columns, o \in OperatorArgs, v \in Literals :
       /\ t_rows' = rs
       /\ t_column' = c
       /\ t_op' = o
       /\ t_value' = v
       /\ t_filter' = apply_filter(rs, c, o, v)
  /\ t_fn' = "apply_filter"
  /\ t_cond' = NoStr
  /\ t_parse' = NoParse
  /\ t_filter2' = NoFilter
  /\ t_agg' = NoAgg
  /\ UNCHANGED mainVars

\* apply_filter called on its own result with the same predicate.
CallApplyFilterAgain ==
  /\ t_fn = "apply_filter"
  /\ t_filter.exc = "none"
  /\ t_filter2' = apply_filter(t_filter.rows, t_column, t_op, t_value)
  /\ t_fn' = "apply_filter_again"
  /\ UNCHANGED << t_cond, t_rows, t_column, t_op, t_value, t_parse, t_filter, t_agg >>
  /\ UNCHANGED mainVars

CallApplyAggregation ==
  /\ t_fn = "none"
  /\ \E rs \in Tables, c \in Columns, o \in OperationArgs :
       /\ t_rows' = rs
       /\ t_column' = c
       /\ t_op' = o
       /\ t_agg' = apply_aggregation(rs, c, o)
  /\ t_fn' = "apply_aggregation"
  /\ t_cond' = NoStr
  /\ t_value' = NoStr
  /\ t_parse' = NoParse
  /\ t_filter' = NoFilter
  /\ t_filter2' = NoFilter
  /\ UNCHANGED mainVars

InitCalls ==
  /\ fileExists = FALSE
  /\ table = << >>
  /\ where = None
  /\ aggregate = None
  /\ pc = "start"
  /\ rows = << >>
  /\ out = << >>
  /\ exc = "none"
  /\ t_fn = "none"
  /\ t_cond = NoStr
  /\ t_rows = << >>
  /\ t_column = NoStr
  /\ t_op = NoStr
  /\ t_value = NoStr
  /\ t_parse = NoParse
  /\ t_filter = NoFilter
  /\ t_filter2 = NoFilter
  /\ t_agg = NoAgg

NextCalls ==
  CallParseCondition \/ CallApplyFilter \/ CallApplyFilterAgain \/ CallApplyAggregation

SpecCalls == InitCalls /\ [][NextCalls]_vars

\* ================================================================= claims
AllHaveColumn(rs, c) == \A i \in 1..Len(rs) : c \in DOMAIN rs[i]

\* C1: for every operator of the recognized set and every row list whose
\* rows all contain the column, apply_filter does not fail with the
\* unsupported-operator error.
C1_RecognizedOperatorsAccepted ==
  ( /\ t_fn = "apply_filter"
    /\ t_op \in RecognizedOperators
    /\ AllHaveColumn(t_rows, t_column) )
  => ~( t_filter.exc = "ValueError" /\ t_filter.msg = "Unsupported operator" )

\* C2: once the file has loaded, no failure leaves main as an unhandled
\* error: main never stops on an exception.
C2_NoFailureEscapesMain == pc # "crashed" /\ exc = "none"

\* C3: apply_aggregation on an empty row list fails with the same handled
\* error (the ValueError main reports) for each of avg, min and max.
C3_EmptyInputSameErrorKind ==
  ( /\ t_fn = "apply_aggregation"
    /\ t_rows = << >>
    /\ t_op \in AggOperations )
  => t_agg.exc = "ValueError"

C4_Priority == << OP_GE, OP_LE, OP_NE, OP_EQ, OP_GT, OP_LT >>

\* C4: a condition that contains ">=", "<=" or "!=" is parsed with one of
\* those three as its operator; the operator returned is the first of the
\* priority list that occurs in the condition, and column and value are the
\* untrimmed text before and after its first occurrence.
C4_MultiCharOperatorsFirst ==
  t_fn = "parse_condition" =>
    /\ ( \E op \in { OP_GE, OP_LE, OP_NE } : Contains(t_cond, op) )
         => ( t_parse.exc = "none" /\ t_parse.operator \in { OP_GE, OP_LE, OP_NE } )
    /\ t_parse.exc = "none" =>
         \E k \in 1..Len(C4_Priority) :
           /\ t_parse.operator = C4_Priority[k]
           /\ Contains(t_cond, C4_Priority[k])
           /\ \A j \in 1..(k - 1) : ~Contains(t_cond, C4_Priority[j])
           /\ t_parse.column = SubSeq(t_cond, 1, Find(t_cond, C4_Priority[k]) - 1)
           /\ t_parse.value =
                SubSeq(t_cond, Find(t_cond, C4_Priority[k]) + Len(C4_Priority[k]),
                       Len(t_cond))
    /\ t_cond = COND_RATING =>
         /\ t_parse.column = << "r", "a", "t", "i", "n", "g" >>
         /\ t_parse.operator = OP_GE
         /\ t_parse.value = << "4", ".", "5" >>
    /\ t_cond = COND_PRICE =>
         /\ t_parse.column = << "p", "r", "i", "c", "e" >>
         /\ t_parse.operator = OP_GT
         /\ t_parse.value = << "3", "0", "0" >>

C4_Witness ==
  /\ t_fn = "parse_condition"
  /\ Contains(t_cond, OP_GE)
  /\ Contains(t_cond, << " " >>)
  /\ Find(t_cond, OP_EQ) < Find(t_cond, OP_GE)
  /\ t_parse.operator = OP_GE

\* C5: parse_condition fails with the invalid-condition error exactly when
\* none of the six operators occurs in the condition; otherwise it returns
\* two parts with column + operator + value equal to the condition.
C5_InvalidIffNoOperator ==
  t_fn = "parse_condition" =>
    /\ ( t_parse.exc = "ValueError" /\ t_parse.msg = "Invalid condition format" )
         <=> ( \A op \in RecognizedOperators : ~Contains(t_cond, op) )
    /\ t_parse.exc \in { "ValueError", "none" }
    /\ t_parse.exc = "none" =>
         t_parse.column \o t_parse.operator \o t_parse.value = t_cond

C5_Witness ==
  /\ t_fn = "parse_condition"
  /\ t_cond = COND_INVALID
  /\ t_parse.exc = "ValueError"

C6_Holds(row) ==
  op_func(t_op, try_convert(row[t_column]), try_convert(t_value)) = "true"

\* C6: when apply_filter succeeds its result is the subsequence of the input
\* rows for which the predicate is true, in the original order, and the
\* input row list is as it was before the call.
C6_ResultIsMatchingSubsequence ==
  ( t_fn = "apply_filter" /\ t_filter.exc = "none" )
  => ( /\ t_filter.rows = SelectSeq(t_rows, C6_Holds)
       /\ t_filter.input = t_rows )

C6_Witness ==
  /\ t_fn = "apply_filter"
  /\ t_filter.exc = "none"
  /\ Len(t_rows) = 2
  /\ Len(t_filter.rows) = 2
  /\ t_rows[1] # t_rows[2]

\* What main has printed.
PrintedKinds == { out[i].kind : i \in 1..Len(out) }

\* C7: aggregation starts only after the filter stage has completed, it is
\* computed over the filtered rows, and with --aggregate given no row table
\* is printed; after a parse or filter failure neither an aggregate nor a
\* table is ever printed, and after an aggregation failure none is either.
C7_FilterThenAggregate ==
  LET parsed == parse_condition(where[1])
      filter == apply_filter(table, parsed.column, parsed.operator, parsed.value)
      filterFails ==
        fileExists /\ Truthy(where) /\ ( parsed.exc # "none" \/ filter.exc # "none" )
      filtered == IF Truthy(where) THEN filter.rows ELSE table
      parts == SplitOnce(aggregate[1], OP_EQ)
      agg == apply_aggregation(filtered, parts[1], parts[2])
      aggFails == Truthy(aggregate) /\ ( Len(parts) # 2 \/ agg.exc # "none" )
  IN /\ pc = "aggregate" => ( ~filterFails /\ rows = filtered )
     /\ \A i \in 1..Len(out) :
          out[i].kind = "aggregate" =>
            /\ ~filterFails
            /\ Len(parts) = 2
            /\ out[i].agg = agg
            /\ out[i].agg.exc = "none"
     /\ Truthy(aggregate) => PrintedKinds \cap { "table", "no_data" } = { }
     /\ filterFails =>
          PrintedKinds \cap { "aggregate", "aggregation_error", "table", "no_data" } = { }
     /\ aggFails => PrintedKinds \cap { "aggregate", "table", "no_data" } = { }

C7_Witness ==
  /\ pc = "done"
  /\ Truthy(where)
  /\ Truthy(aggregate)
  /\ "aggregate" \in PrintedKinds
  /\ rows # << >>
  /\ Len(rows) < Len(table)

\* C8: for a supported operation and a non-empty row list, apply_aggregation
\* fails with the non-numeric-column error whenever some row's value at the
\* column is not a number, and returns no result.
C8_NonNumericRejected ==
  ( /\ t_fn = "apply_aggregation"
    /\ t_op \in { OPN_AVG, OPN_MIN, OPN_MAX }
    /\ t_rows # << >>
    /\ AllHaveColumn(t_rows, t_column)
    /\ \E i \in 1..Len(t_rows) : ~IsFloat(t_rows[i][t_column]) )
  => ( /\ t_agg.exc = "ValueError"
       /\ t_agg.msg = "Cannot aggregate non-numeric column" )

C8_Witness ==
  /\ t_fn = "apply_aggregation"
  /\ t_op = OPN_MAX
  /\ Len(t_rows) = 2
  /\ t_column = COL_P
  /\ IsFloat(t_rows[1][COL_P])
  /\ ~IsFloat(t_rows[2][COL_P])
  /\ t_agg.exc = "ValueError"

\* C9: apply_filter applied to its own result with the same column,
\* operator and value succeeds and returns that result unchanged.
C9_FilterIdempotent ==
  t_fn = "apply_filter_again" =>
    ( t_filter2.exc = "none" /\ t_filter2.rows = t_filter.rows )

C9_Witness ==
  /\ t_fn = "apply_filter_again"
  /\ t_filter.rows # << >>
  /\ Len(t_filter.rows) < Len(t_rows)
  /\ t_filter2.rows = t_filter.rows

C10_EarlyEq(c) ==
  /\ Contains(c, OP_GE)
  /\ Find(c, OP_EQ) < Find(c, OP_GE)

\* C10 as stated: a condition with an early "=" before a later ">=" (such
\* as "a=b>=c") is split at the "=", giving operator "=".
C10_EarlyEqMatchesFirst ==
  ( t_fn = "parse_condition" /\ C10_EarlyEq(t_cond) ) =>
    /\ t_parse.operator = OP_EQ
    /\ t_parse.column = SubSeq(t_cond, 1, Find(t_cond, OP_EQ) - 1)
    /\ t_parse.value = SubSeq(t_cond, Find(t_cond, OP_EQ) + 1, Len(t_cond))

\* C10 amended: a condition with an early "=" before a later ">=" is split
\* at the first ">=", giving operator ">=", the column holding the early
\* "="; "a=b>=c" gives ("a=b", ">=", "c").
C10_EarlyEqSplitsAtGe ==
  ( t_fn = "parse_condition" /\ C10_EarlyEq(t_cond) ) =>
    /\ t_parse.exc = "none"
    /\ t_parse.operator = OP_GE
    /\ t_parse.column = SubSeq(t_cond, 1, Find(t_cond, OP_GE) - 1)
    /\ Contains(t_parse.column, OP_EQ)
    /\ t_parse.value = SubSeq(t_cond, Find(t_cond, OP_GE) + 2, Len(t_cond))
    /\ t_cond = COND_EARLY_EQ =>
         /\ t_parse.column = << "a", "=", "b" >>
         /\ t_parse.value = << "c" >>

C10_Witness ==
  /\ t_fn = "parse_condition"
  /\ t_cond = COND_EARLY_EQ
  /\ t_parse.operator = OP_GE

====
